---- MODULE Spec2Model ----
(***************************************************************************)
(* Model of minilm2/llm/infer_sft.py: the context builder, the history     *)
(* mutator and the interactive session loop with its two decoding modes.   *)
(*                                                                         *)
(* Text is a sequence of one-character strings, a token is an id (an index *)
(* into the vocabulary, starting at 0), a float is a record (see Float).   *)
(***************************************************************************)
EXTENDS Integers, Sequences, FiniteSets, TLC

(***************************************************************************)
(* Bounds of the model.                                                    *)
(***************************************************************************)
\* longest history handed to build_context by the context-builder specification
MaxHist == 2
\* largest max_length tried by the context-builder specification
MaxCtx == 20
\* turns opened plus tokens sampled in one session (caps the session)
MaxSteps == 5
\* largest vocabulary tried by the sampler specification
MaxVocab == 4
\* most lines joined into one input by the input-loop specification
MaxJoin == 3

(***************************************************************************)
(* Python helpers.                                                         *)
(***************************************************************************)
Min(a, b) == IF a <= b THEN a ELSE b
Max(a, b) == IF a >= b THEN a ELSE b

\* s[n:] for any integer n (negative n counts from the end, both ends clamp)
PySliceFrom(s, n) ==
    LET start == IF n < 0 THEN Max(Len(s) + n, 0) ELSE Min(n, Len(s))
    IN SubSeq(s, start + 1, Len(s))

\* s[-1:]
PyLast(s) == PySliceFrom(s, -1)

(***************************************************************************)
(* The tokenizer (external collaborator): a character-level vocabulary.    *)
(* id_to_token(i) is Vocab[i + 1]; encode maps each character to its id    *)
(* and a character outside the vocabulary to the unknown token, id 0.      *)
(***************************************************************************)
Vocab == << "?", "\n", "x", "H", "A" >>
VocabSize == Len(Vocab)
TokenIds == 0 .. (VocabSize - 1)

id_to_token(i) == Vocab[i + 1]

char_id(c) == IF \E i \in TokenIds : Vocab[i + 1] = c
              THEN CHOOSE i \in TokenIds : Vocab[i + 1] = c
              ELSE 0

encode(txt) == [i \in 1 .. Len(txt) |-> char_id(txt[i])]

\* the id of the token that decodes to a newline
NL == char_id("\n")

\* config.HUMAN_PREFIX and config.AI_PREFIX: role markers, one token each
HUMAN_PREFIX == << "H" >>
AI_PREFIX == << "A" >>

(***************************************************************************)
(* build_context (lines 9-23).  A falsy system prompt (None or "") is the  *)
(* empty sequence.                                                         *)
(***************************************************************************)
human_prefix_ids == encode(HUMAN_PREFIX)
ai_prefix_ids == encode(AI_PREFIX)
separator_ids == encode(<< "\n", "\n", "\n" >>)

system_prompt_ids(sp) == IF sp # << >> THEN encode(sp) \o separator_ids ELSE << >>

\* ids after the first n iterations of the loop of lines 16-21
RECURSIVE turn_ids(_, _)
turn_ids(hist, n) ==
    IF n = 0 THEN << >>
    ELSE turn_ids(hist, n - 1)
           \o human_prefix_ids \o encode(hist[n][1]) \o separator_ids
           \o ai_prefix_ids \o encode(hist[n][2])
           \o (IF n - 1 < Len(hist) - 1 THEN separator_ids ELSE << >>)

\* line 22 with the slice taken from the wrong end
build_context_KeepOldest(hist, maxlen, sp) ==
    LET ids == turn_ids(hist, Len(hist))
        sys == system_prompt_ids(sp)
    IN sys \o SubSeq(ids, 1, Min(Len(ids), Max(maxlen - Len(sys), 0)))

\* line 21 without its guard: a separator after every turn
build_context_SepAfterLast(hist, maxlen, sp) ==
    LET ids == turn_ids(hist, Len(hist))
                 \o (IF hist # << >> THEN separator_ids ELSE << >>)
        sys == system_prompt_ids(sp)
    IN sys \o PySliceFrom(ids, Len(sys) - maxlen)

build_context(hist, maxlen, sp) ==
    LET ids == turn_ids(hist, Len(hist))
        sys == system_prompt_ids(sp)
    IN sys \o PySliceFrom(ids, Len(sys) - maxlen)

(***************************************************************************)
(* append_history (lines 25-30).                                           *)
(***************************************************************************)
\* lines 25-30 with the "ai" branch keeping only the turn it completes
append_history_AiDropsOlder(hist, role, txt) ==
    IF role = "human"
    THEN Append(hist, << txt, << >> >>)
    ELSE << << hist[Len(hist)][1], txt >> >>

\* lines 25-30 with the "human" branch overwriting the last turn when there is one
append_history_HumanOverwrites(hist, role, txt) ==
    IF role = "human"
    THEN IF hist = << >> THEN << << txt, << >> >> >>
         ELSE [hist EXCEPT ![Len(hist)] = << txt, << >> >>]
    ELSE [hist EXCEPT ![Len(hist)] = << hist[Len(hist)][1], txt >>]

append_history(hist, role, txt) ==
    IF role = "human"
    THEN Append(hist, << txt, << >> >>)
    ELSE [hist EXCEPT ![Len(hist)] = << hist[Len(hist)][1], txt >>]


(***************************************************************************)
(* Floats.  A float is NaN or a number kept in hundredths: Float(150) is   *)
(* 1.5.  Every comparison with NaN is false, as in Python.                 *)
(***************************************************************************)
Float(c) == [nan |-> FALSE, c |-> c]
NaN == [nan |-> TRUE, c |-> 0]

FloatLE(a, b) == ~a.nan /\ ~b.nan /\ a.c <= b.c
FloatGT(a, b) == ~a.nan /\ ~b.nan /\ a.c > b.c

Digits == << "0", "1", "2", "3", "4", "5", "6", "7", "8", "9" >>
IsDigit(ch) == \E i \in 1 .. Len(Digits) : Digits[i] = ch
DigitValue(ch) == (CHOOSE i \in 1 .. Len(Digits) : Digits[i] = ch) - 1

RECURSIVE DecimalValue(_)
DecimalValue(ds) ==
    IF ds = << >> THEN 0
    ELSE 10 * DecimalValue(SubSeq(ds, 1, Len(ds) - 1)) + DigitValue(ds[Len(ds)])

\* float(w): an optional sign, digits with at most one point (up to two decimals are
\* kept), or "nan"; anything else raises ValueError (ok = FALSE)
ParseFloat(w) ==
    LET neg == w # << >> /\ w[1] = "-"
        body == IF neg THEN Tail(w) ELSE w
        dots == { i \in 1 .. Len(body) : body[i] = "." }
        dot == IF dots = {} THEN Len(body) + 1 ELSE CHOOSE i \in dots : TRUE
        ip == SubSeq(body, 1, dot - 1)
        fp == SubSeq(body, dot + 1, Len(body))
        wellformed == /\ Cardinality(dots) <= 1
                      /\ Len(ip) + Len(fp) >= 1
                      /\ Len(fp) <= 2
                      /\ \A i \in 1 .. Len(ip) : IsDigit(ip[i])
                      /\ \A i \in 1 .. Len(fp) : IsDigit(fp[i])
        frac == IF Len(fp) = 1 THEN 10 * DecimalValue(fp) ELSE DecimalValue(fp)
        mag == 100 * DecimalValue(ip) + frac
    IN IF body = << "n", "a", "n" >> THEN [ok |-> TRUE, val |-> NaN]
       ELSE IF wellformed THEN [ok |-> TRUE, val |-> Float(IF neg THEN 0 - mag ELSE mag)]
       ELSE [ok |-> FALSE, val |-> NaN]

(***************************************************************************)
(* str helpers: startswith, split, strip.                                  *)
(***************************************************************************)
IsSpace(ch) == ch \in { " ", "\n", "\t" }

StartsWith(t, p) == Len(p) <= Len(t) /\ SubSeq(t, 1, Len(p)) = p

\* t.split(): the maximal runs of non-whitespace characters, in order
RECURSIVE Split(_)
Split(t) ==
    IF t = << >> THEN << >>
    ELSE IF IsSpace(t[1]) THEN Split(Tail(t))
    ELSE LET ends == { i \in 1 .. Len(t) : IsSpace(t[i]) }
             stop_at == IF ends = {} THEN Len(t) + 1
                        ELSE CHOOSE i \in ends : \A j \in ends : i <= j
         IN << SubSeq(t, 1, stop_at - 1) >> \o Split(SubSeq(t, stop_at, Len(t)))

RECURSIVE LStrip(_)
LStrip(t) == IF t # << >> /\ IsSpace(t[1]) THEN LStrip(Tail(t)) ELSE t

RECURSIVE RStrip(_)
RStrip(t) ==
    IF t # << >> /\ IsSpace(t[Len(t)]) THEN RStrip(SubSeq(t, 1, Len(t) - 1)) ELSE t

\* what section 4.4 of the design text describes: trailing whitespace only
Strip_TrailingOnly(t) == RStrip(t)

Strip(t) == LStrip(RStrip(t))

(***************************************************************************)
(* The !top_p and !temperature handlers (lines 131-150): the value the     *)
(* parameter has afterwards and whether the command was accepted.          *)
(***************************************************************************)
\* float(text.split()[1]); raise ValueError if v <= 0 or v > limit; store v
set_param(txt, cur, limit) ==
    LET w == Split(txt)
        f == IF Len(w) >= 2 THEN ParseFloat(w[2]) ELSE [ok |-> FALSE, val |-> NaN]
    IN IF Len(w) < 2 \/ ~f.ok
       THEN [accepted |-> FALSE, val |-> cur]
       ELSE IF FloatLE(f.val, Float(0)) \/ FloatGT(f.val, Float(limit))
       THEN [accepted |-> FALSE, val |-> cur]
       ELSE [accepted |-> TRUE, val |-> f.val]

TopPLimit == 100
TemperatureLimit == 200

(***************************************************************************)
(* The sampling step (lines 175-179 and 204-208).                          *)
(***************************************************************************)
\* round(n / d) for n >= 0, d > 0: Python rounds halves to the even neighbour
RoundHalfEven(n, d) ==
    LET q == n \div d
        r == n % d
    IN IF 2 * r < d THEN q
       ELSE IF 2 * r > d THEN q + 1
       ELSE IF q % 2 = 0 THEN q ELSE q + 1

\* round(vocab_size * top_p)
topk_count(vs, tp) == RoundHalfEven(vs * tp.c, 100)

\* logits.topk(k): any k indices none of which has a smaller weight than one left out
topk(lg, k) ==
    { I \in SUBSET (DOMAIN lg) :
        /\ Cardinality(I) = k
        /\ \A i \in I : \A j \in (DOMAIN lg) \ I : lg[i] >= lg[j] }

\* The outcomes of one sampling step on the distribution lg.  round raises on a NaN
\* top_p, multinomial raises on NaN probabilities (NaN temperature) and on an empty
\* candidate set; otherwise any candidate can be drawn (all weights are positive).
sample_outcomes(lg, vs, tp, temp) ==
    IF tp.nan \/ temp.nan \/ topk_count(vs, tp) = 0
    THEN { [raised |-> TRUE, indices |-> {}, token_id |-> 0] }
    ELSE UNION { { [raised |-> FALSE, indices |-> I, token_id |-> t] : t \in I }
                 : I \in topk(lg, topk_count(vs, tp)) }

(***************************************************************************)
(* State.                                                                  *)
(*   enable_kvcache, max_length, system_prompt, vocab_size: configuration  *)
(*   history, top_p, temperature: the session state                        *)
(*   text: the input line being handled; out: the last message printed     *)
(*   input_ids, response, n_blankline, last_out, token_id, logits,         *)
(*   indices: the locals of the decoding loops                             *)
(*   cache: the tokens the model's cache has consumed since its last reset *)
(*   sampled, streamed: the tokens sampled / printed in the current turn   *)
(*   stop: how the current turn's loop was left                            *)
(*   ticks: the turns opened plus the tokens sampled so far in the session *)
(*   pc: the position of the program                                       *)
(***************************************************************************)
VARIABLES enable_kvcache, max_length, system_prompt, vocab_size,
          history, top_p, temperature, text, out,
          input_ids, response, n_blankline, last_out, token_id, logits, indices,
          cache, sampled, streamed, stop, ticks, pc

config_vars == << enable_kvcache, max_length, system_prompt, vocab_size >>
param_vars == << top_p, temperature >>
loop_vars == << input_ids, response, n_blankline, last_out, token_id, logits, indices,
                sampled, streamed, stop >>
vars == << enable_kvcache, max_length, system_prompt, vocab_size,
           history, top_p, temperature, text, out,
           input_ids, response, n_blankline, last_out, token_id, logits, indices,
           cache, sampled, streamed, stop, ticks, pc >>

\* what a handler printed: a message and the data printed with it
Output(msg, data) == [msg |-> msg, data |-> data]
NoOutput == Output("", << >>)

(***************************************************************************)
(* Inputs.                                                                 *)
(***************************************************************************)
SystemPrompts == { << >>, << "x" >> }
Texts == { << >>, << "x" >>, << "b", "\n" >> }
Turns == Texts \X Texts

RECURSIVE HistoriesUpTo(_)
HistoriesUpTo(n) ==
    IF n = 0 THEN { << >> }
    ELSE LET shorter == HistoriesUpTo(n - 1)
         IN shorter \cup { Append(h, t) : h \in { g \in shorter : Len(g) = n - 1 }, t \in Turns }

(***************************************************************************)
(* Specification of the context builder alone: build_context applied to    *)
(* every history, max_length and system prompt of the bounded sets.        *)
(***************************************************************************)
InitBuild ==
    /\ enable_kvcache = FALSE
    /\ max_length \in 0 .. MaxCtx
    /\ system_prompt \in SystemPrompts
    /\ vocab_size = VocabSize
    /\ history \in HistoriesUpTo(MaxHist)
    /\ top_p = Float(TopPLimit) /\ temperature = Float(TopPLimit)
    /\ text = << >> /\ out = [msg |-> "", data |-> << >>]
    /\ input_ids = << >> /\ response = << >> /\ n_blankline = 0
    /\ last_out = << >> /\ token_id = 0 /\ logits = << >> /\ indices = {}
    /\ cache = << >> /\ sampled = << >> /\ streamed = << >> /\ stop = ""
    /\ ticks = 0
    /\ pc = "build"

BuildContext ==
    /\ pc = "build"
    /\ input_ids' = build_context(history, max_length, system_prompt)
    /\ pc' = "built"
    /\ UNCHANGED << config_vars, history, param_vars, text, out, response, n_blankline,
                    last_out, token_id, logits, indices, cache, sampled, streamed, stop,
                    ticks >>

NextBuild == BuildContext

SpecBuild == InitBuild /\ [][NextBuild]_vars

(***************************************************************************)
(* Properties of build_context.                                            *)
(***************************************************************************)
\* the layout of one turn and of a whole history, written front to back
TurnLayout(t) ==
    encode(HUMAN_PREFIX) \o encode(t[1]) \o encode(<< "\n", "\n", "\n" >>)
        \o encode(AI_PREFIX) \o encode(t[2])

RECURSIVE Layout(_)
Layout(hist) ==
    IF hist = << >> THEN << >>
    ELSE IF Len(hist) = 1 THEN TurnLayout(Head(hist))
    ELSE TurnLayout(Head(hist)) \o encode(<< "\n", "\n", "\n" >>) \o Layout(Tail(hist))

PinnedPrefix(sp) == IF sp = << >> THEN << >> ELSE encode(sp) \o encode(<< "\n", "\n", "\n" >>)

IsPrefixOf(p, s) == Len(p) <= Len(s) /\ SubSeq(s, 1, Len(p)) = p
IsSuffixOf(p, s) == Len(p) <= Len(s) /\ SubSeq(s, Len(s) - Len(p) + 1, Len(s)) = p

PinnedLen == Len(PinnedPrefix(system_prompt))
TurnLen == Len(Layout(history))

\* C1: whenever the pinned prefix fits (S <= max_length, max_length >= 1), the built
\* context has exactly min(S + T, max_length) tokens.
C1_ExactLength ==
    (pc = "built" /\ max_length >= 1 /\ PinnedLen <= max_length)
        => Len(input_ids) = Min(PinnedLen + TurnLen, max_length)

\* C2: the built context is the whole pinned prefix followed by a contiguous suffix
\* of the turn tokens (only the oldest turn tokens are ever removed).
C2_PrefixThenSuffix ==
    pc = "built" =>
        /\ IsPrefixOf(PinnedPrefix(system_prompt), input_ids)
        /\ IsSuffixOf(PySliceFrom(input_ids, PinnedLen), Layout(history))

\* a truncated context with a system prompt that still keeps some turn tokens
C2_Witness ==
    /\ pc = "built"
    /\ system_prompt # << >>
    /\ Len(input_ids) < PinnedLen + TurnLen
    /\ Len(input_ids) > PinnedLen
    /\ Len(history) = 2

\* C3: when nothing has to be truncated the context is the pinned prefix followed by
\* the turns in order, one separator between turns and none after the last; a pending
\* turn therefore ends the context with the ai-prefix.
C3_LayoutWhenFits ==
    (pc = "built" /\ PinnedLen + TurnLen <= max_length) =>
        /\ input_ids = PinnedPrefix(system_prompt) \o Layout(history)
        /\ (history # << >> /\ history[Len(history)][2] = << >>)
               => IsSuffixOf(encode(AI_PREFIX), input_ids)

\* two turns and a system prompt that fit, the last turn pending
C3_Witness ==
    /\ pc = "built"
    /\ PinnedLen + TurnLen <= max_length
    /\ system_prompt # << >>
    /\ Len(history) = 2
    /\ history[2][2] = << >>
    /\ history[1][2] # << >>


(***************************************************************************)
(* The model adapter (external collaborator): update feeds tokens to the   *)
(* cache, clear_cache empties it.                                          *)
(***************************************************************************)
model_update(c, ids) == c \o ids
model_clear_cache(c) == << >>

(***************************************************************************)
(* Pieces of the session loop.                                             *)
(***************************************************************************)
\* lines 106-107: the cache at session start
initial_cache(maxlen, sp) == model_update(<< >>, build_context(<< >>, maxlen, sp))

\* lines 126-128 without the call of clear_cache
reprime_NoReset(c, maxlen, sp) == model_update(c, build_context(<< >>, maxlen, sp))

\* lines 126-128: reset the cache and prime it with the system prompt
reprime(c, maxlen, sp) ==
    model_update(model_clear_cache(c), build_context(<< >>, maxlen, sp))

\* lines 184-189 with the else branch missing: the count is never reset
blank_count_NoReset(tok, n) == IF id_to_token(tok) = "\n" THEN n + 1 ELSE n

\* lines 184-189 (213-218): n_blankline after the token tok
blank_count(tok, n) == IF id_to_token(tok) = "\n" THEN n + 1 ELSE 0

\* lines 184-187 (213-216): the loop is left at this token
StopCount == 3
blank_break(tok, n) == id_to_token(tok) = "\n" /\ blank_count(tok, n) >= StopCount

\* `not last_out`: None, or a one-element tensor holding the id 0
not_last_out(lo) == lo = << >> \/ lo = << 0 >>

(***************************************************************************)
(* Input lines.                                                            *)
(***************************************************************************)
CLEAR == << "!", "c", "l", "e", "a", "r" >>
TOP_P == << "!", "t", "o", "p", "_", "p" >>
TEMPERATURE == << "!", "t", "e", "m", "p", "e", "r", "a", "t", "u", "r", "e" >>
CONTEXT == << "!", "c", "o", "n", "t", "e", "x", "t" >>
HISTORY == << "!", "h", "i", "s", "t", "o", "r", "y" >>

\* the arguments tried with !top_p and !temperature
TopPArgs == { << "0", ".", "4" >>, << "1", ".", "5" >>, << "n", "a", "n" >> }
TemperatureArgs == { << "1", ".", "5" >>, << "2", ".", "5" >> }

TopPLines == { TOP_P } \cup { TOP_P \o << " " >> \o a : a \in TopPArgs }
TemperatureLines == { TEMPERATURE } \cup { TEMPERATURE \o << " " >> \o a : a \in TemperatureArgs }
PlainLines == { << "x" >> }
Lines == { CLEAR, CONTEXT, HISTORY, << >> } \cup TopPLines \cup TemperatureLines \cup PlainLines

\* the distributions the model is taken to return: a weight for every token id
ModelOutputs ==
    { [i \in TokenIds |-> << 3, 5, 4, 2, 1 >>[i + 1]],
      [i \in TokenIds |-> << 4, 3, 5, 1, 2 >>[i + 1]] }

MaxLengths == { 16 }

\* train_config['top_p'] and train_config['temperature'] as the configuration file sets them
InitialTopP == Float(60)
InitialTemperature == Float(100)

GenPcs == { "gen_model", "gen_sample", "gen_print", "gen_append" }

(***************************************************************************)
(* The session (lines 102-225).                                            *)
(***************************************************************************)
Init ==
    /\ enable_kvcache \in BOOLEAN
    /\ max_length \in MaxLengths
    /\ system_prompt \in SystemPrompts
    /\ vocab_size = VocabSize
    /\ history = << >>
    /\ top_p = InitialTopP /\ temperature = InitialTemperature
    /\ text = << >> /\ out = NoOutput
    /\ input_ids = << >> /\ response = << >> /\ n_blankline = 0
    /\ last_out = << >> /\ token_id = 0 /\ logits = << >> /\ indices = {}
    /\ cache = IF enable_kvcache THEN initial_cache(max_length, system_prompt) ELSE << >>
    /\ sampled = << >> /\ streamed = << >> /\ stop = ""
    /\ ticks = 0
    /\ pc = "prompt"

\* lines 120-122: end of input ends the session
Eof ==
    /\ pc = "prompt"
    /\ pc' = "exited"
    /\ out' = NoOutput
    /\ UNCHANGED << config_vars, history, param_vars, text, loop_vars, cache, ticks >>

\* lines 114-117: an empty line makes text[-1] raise IndexError, which nothing catches
EmptyLine ==
    /\ pc = "prompt"
    /\ text' = << >>
    /\ pc' = "crashed"
    /\ out' = Output("IndexError", << >>)
    /\ UNCHANGED << config_vars, history, param_vars, loop_vars, cache, ticks >>

\* lines 123-130
CmdClear ==
    /\ pc = "prompt"
    /\ \E t \in Lines :
         /\ t # << >> /\ t = CLEAR
         /\ text' = << >>
    /\ history' = << >>
    /\ cache' = IF enable_kvcache THEN reprime(cache, max_length, system_prompt) ELSE cache
    /\ out' = Output("History cleared.", << >>)
    /\ pc' = "prompt"
    /\ UNCHANGED << config_vars, param_vars, loop_vars, ticks >>

\* lines 131-140, the line drawn from the set L
CmdTopPOn(L) ==
    /\ pc = "prompt"
    /\ \E t \in L :
         /\ t # << >> /\ t # CLEAR /\ StartsWith(t, TOP_P)
         /\ text' = << >>
         /\ LET r == set_param(t, top_p, TopPLimit)
            IN /\ top_p' = r.val
               /\ out' = IF r.accepted THEN Output("top_p set to", << r.val >>)
                         ELSE Output("top_p value should be a float between 0 and 1.", << >>)
    /\ pc' = "prompt"
    /\ UNCHANGED << config_vars, history, temperature, loop_vars, cache, ticks >>

CmdTopP == CmdTopPOn(Lines)

\* lines 141-150
CmdTemperature ==
    /\ pc = "prompt"
    /\ \E t \in Lines :
         /\ t # << >> /\ t # CLEAR /\ ~StartsWith(t, TOP_P) /\ StartsWith(t, TEMPERATURE)
         /\ text' = << >>
         /\ LET r == set_param(t, temperature, TemperatureLimit)
            IN /\ temperature' = r.val
               /\ out' = IF r.accepted THEN Output("temperature set to", << r.val >>)
                         ELSE Output("temperature value should be a float between 0 and 2.", << >>)
    /\ pc' = "prompt"
    /\ UNCHANGED << config_vars, history, top_p, loop_vars, cache, ticks >>

\* lines 151-159 with the system prompt left out of the printed context
CmdContext_NoSystemPrompt ==
    /\ pc = "prompt"
    /\ \E t \in Lines :
         /\ t # << >> /\ t # CLEAR /\ ~StartsWith(t, TOP_P) /\ ~StartsWith(t, TEMPERATURE)
         /\ StartsWith(t, CONTEXT)
         /\ text' = << >>
    /\ LET ids == build_context(history, max_length, << >>)
       IN out' = Output("context", [i \in 1 .. Len(ids) |-> id_to_token(ids[i])])
    /\ pc' = "prompt"
    /\ UNCHANGED << config_vars, history, param_vars, loop_vars, cache, ticks >>

\* lines 151-159; squeeze() of a one-token context is a 0-d tensor, which the for
\* loop cannot iterate (TypeError)
CmdContext ==
    /\ pc = "prompt"
    /\ \E t \in Lines :
         /\ t # << >> /\ t # CLEAR /\ ~StartsWith(t, TOP_P) /\ ~StartsWith(t, TEMPERATURE)
         /\ StartsWith(t, CONTEXT)
         /\ text' = << >>
    /\ LET ids == build_context(history, max_length, system_prompt)
       IN IF Len(ids) = 1
          THEN /\ out' = Output("TypeError", << >>)
               /\ pc' = "crashed"
          ELSE /\ out' = Output("context", [i \in 1 .. Len(ids) |-> id_to_token(ids[i])])
               /\ pc' = "prompt"
    /\ UNCHANGED << config_vars, history, param_vars, loop_vars, cache, ticks >>

\* lines 160-162
CmdHistory ==
    /\ pc = "prompt"
    /\ \E t \in Lines :
         /\ t # << >> /\ t # CLEAR /\ ~StartsWith(t, TOP_P) /\ ~StartsWith(t, TEMPERATURE)
         /\ ~StartsWith(t, CONTEXT) /\ StartsWith(t, HISTORY)
         /\ text' = << >>
    /\ out' = Output("history", history)
    /\ pc' = "prompt"
    /\ UNCHANGED << config_vars, history, param_vars, loop_vars, cache, ticks >>

\* lines 163-170 and 196: a plain line opens a turn
HumanTurn ==
    /\ pc = "prompt"
    /\ ticks < MaxSteps
    /\ ticks' = ticks + 1
    /\ \E t \in Lines :
         /\ t # << >> /\ t # CLEAR /\ ~StartsWith(t, TOP_P) /\ ~StartsWith(t, TEMPERATURE)
         /\ ~StartsWith(t, CONTEXT) /\ ~StartsWith(t, HISTORY)
         /\ text' = t
         /\ history' = append_history(history, "human", t)
    /\ input_ids' = build_context(history', max_length, system_prompt)
    /\ response' = << >>
    /\ n_blankline' = 0
    /\ last_out' = << >>
    /\ sampled' = << >> /\ streamed' = << >> /\ stop' = ""
    /\ out' = NoOutput
    /\ pc' = "gen_model"
    /\ UNCHANGED << config_vars, param_vars, token_id, logits, indices, cache >>

\* line 174 (the forward pass over input_ids) or lines 199-203 (the cache is fed)
\* lines 172-174 and 197-203 with the cache reset before each turn's first update
GenModel_ResetsEachTurn ==
    /\ pc = "gen_model"
    /\ ticks < MaxSteps
    /\ IF enable_kvcache
       THEN IF not_last_out(last_out)
            THEN /\ input_ids' = build_context(PyLast(history), max_length, << >>)
                 /\ cache' = model_update(model_clear_cache(cache), input_ids')
            ELSE /\ cache' = model_update(cache, last_out)
                 /\ UNCHANGED input_ids
       ELSE UNCHANGED << input_ids, cache >>
    /\ pc' = "gen_sample"
    /\ UNCHANGED << config_vars, history, param_vars, text, out, response, n_blankline,
                    last_out, token_id, logits, indices, sampled, streamed, stop, ticks >>

GenModel ==
    /\ pc = "gen_model"
    /\ ticks < MaxSteps
    /\ IF enable_kvcache
       THEN IF not_last_out(last_out)
            THEN /\ input_ids' = build_context(PyLast(history), max_length, << >>)
                 /\ cache' = model_update(cache, input_ids')
            ELSE /\ cache' = model_update(cache, last_out)
                 /\ UNCHANGED input_ids
       ELSE UNCHANGED << input_ids, cache >>
    /\ pc' = "gen_sample"
    /\ UNCHANGED << config_vars, history, param_vars, text, out, response, n_blankline,
                    last_out, token_id, logits, indices, sampled, streamed, stop, ticks >>

\* lines 175-189 or 204-218: sample a token, extend the context, count newlines
GenSample ==
    /\ pc = "gen_sample"
    /\ \E lg \in ModelOutputs :
         \E o \in sample_outcomes(lg, vocab_size, top_p, temperature) :
            IF o.raised
            THEN /\ pc' = "crashed"
                 /\ UNCHANGED << input_ids, n_blankline, last_out, token_id, logits,
                                 indices, sampled, stop, ticks >>
            ELSE /\ logits' = lg
                 /\ indices' = o.indices
                 /\ token_id' = o.token_id
                 /\ sampled' = Append(sampled, o.token_id)
                 /\ ticks' = ticks + 1
                 /\ IF enable_kvcache
                    THEN /\ last_out' = << o.token_id >>
                         /\ UNCHANGED input_ids
                    ELSE /\ input_ids' = PySliceFrom(Append(input_ids, o.token_id),
                                                     0 - max_length)
                         /\ UNCHANGED last_out
                 /\ n_blankline' = blank_count(o.token_id, n_blankline)
                 /\ IF blank_break(o.token_id, n_blankline)
                    THEN pc' = "complete" /\ stop' = "stopped"
                    ELSE pc' = "gen_print" /\ UNCHANGED stop
    /\ UNCHANGED << config_vars, history, param_vars, text, out, response, cache, streamed >>

\* line 190 (219): the token is streamed to the user
GenPrint ==
    /\ pc = "gen_print"
    /\ streamed' = Append(streamed, id_to_token(token_id))
    /\ pc' = "gen_append"
    /\ UNCHANGED << config_vars, history, param_vars, text, out, input_ids, response,
                    n_blankline, last_out, token_id, logits, indices, cache, sampled, stop,
                    ticks >>

\* line 191 (220)
GenAppend ==
    /\ pc = "gen_append"
    /\ response' = Append(response, id_to_token(token_id))
    /\ pc' = "gen_model"
    /\ UNCHANGED << config_vars, history, param_vars, text, out, input_ids,
                    n_blankline, last_out, token_id, logits, indices, cache, sampled,
                    streamed, stop, ticks >>

\* lines 192-194 (221-223): KeyboardInterrupt anywhere inside the try block
Interrupt ==
    /\ pc \in GenPcs
    /\ stop' = "interrupted"
    /\ pc' = "complete"
    /\ UNCHANGED << config_vars, history, param_vars, text, out, input_ids, response,
                    n_blankline, last_out, token_id, logits, indices, cache, sampled,
                    streamed, ticks >>

\* line 225
CompleteTurn ==
    /\ pc = "complete"
    /\ history' = append_history(history, "ai", Strip(response))
    /\ text' = << >>
    /\ input_ids' = << >> /\ response' = << >> /\ n_blankline' = 0
    /\ last_out' = << >> /\ token_id' = 0 /\ logits' = << >> /\ indices' = {}
    /\ sampled' = << >> /\ streamed' = << >> /\ stop' = ""
    /\ pc' = "prompt"
    /\ UNCHANGED << config_vars, param_vars, out, cache, ticks >>

Next ==
    \/ Eof
    \/ EmptyLine
    \/ CmdClear
    \/ CmdTopP
    \/ CmdTemperature
    \/ CmdContext
    \/ CmdHistory
    \/ HumanTurn
    \/ GenModel
    \/ GenSample
    \/ GenPrint
    \/ GenAppend
    \/ Interrupt
    \/ CompleteTurn

Spec == Init /\ [][Next]_vars


(***************************************************************************)
(* Specification of the sampling step alone: every vocabulary size up to   *)
(* MaxVocab, every top_p the !top_p handler lets through, every            *)
(* distribution with weights in Weights.                                   *)
(***************************************************************************)
SamplerArgs == { << "1" >>, << "0", ".", "5" >>, << "0", ".", "4" >>,
                 << "0", ".", "0", "5" >>, << "1", ".", "5" >>, << "0" >>, << "a" >> }
SamplerLines == { TOP_P \o << " " >> \o a : a \in SamplerArgs }
Weights == 1 .. 3
Distributions(vs) == [0 .. (vs - 1) -> Weights]

InitSample ==
    /\ enable_kvcache = FALSE
    /\ max_length \in MaxLengths
    /\ system_prompt = << >>
    /\ vocab_size \in 1 .. MaxVocab
    /\ history = << >>
    /\ top_p = Float(TopPLimit) /\ temperature = InitialTemperature
    /\ text = << >> /\ out = NoOutput
    /\ input_ids = << >> /\ response = << >> /\ n_blankline = 0
    /\ last_out = << >> /\ token_id = 0 /\ logits = << >> /\ indices = {}
    /\ cache = << >> /\ sampled = << >> /\ streamed = << >> /\ stop = ""
    /\ ticks = 0
    /\ pc = "prompt"

SamplerSetTopP == CmdTopPOn(SamplerLines)

\* lines 175-179 on one distribution
SamplerStep ==
    /\ pc = "prompt"
    /\ \E lg \in Distributions(vocab_size) :
         \E o \in sample_outcomes(lg, vocab_size, top_p, temperature) :
            /\ logits' = lg
            /\ indices' = o.indices
            /\ token_id' = o.token_id
            /\ pc' = IF o.raised THEN "crashed" ELSE "sampled"
    /\ out' = NoOutput
    /\ UNCHANGED << config_vars, history, param_vars, text, input_ids, response,
                    n_blankline, last_out, cache, sampled, streamed, stop, ticks >>

SamplerReturn ==
    /\ pc = "sampled"
    /\ pc' = "prompt"
    /\ UNCHANGED << config_vars, history, param_vars, text, out, loop_vars, cache, ticks >>

NextSample == SamplerSetTopP \/ SamplerStep \/ SamplerReturn

SpecSample == InitSample /\ [][NextSample]_vars

(***************************************************************************)
(* Properties of the session.                                              *)
(***************************************************************************)
\* the three tokens ending at position i of s are newlines
ThreeNewlinesAt(s, i) ==
    i >= 3 /\ \A j \in (i - 2) .. i : id_to_token(s[j]) = "\n"

\* C4: a turn that is not interrupted stops exactly at the first sampled newline whose
\* two predecessors in the same turn are newlines: while the loop runs no such token
\* has been sampled, and when the loop stops the last sampled token is the first one.
C4_StopsAtThirdNewline ==
    /\ pc \in GenPcs => \A i \in 1 .. Len(sampled) : ~ThreeNewlinesAt(sampled, i)
    /\ (pc = "complete" /\ stop = "stopped") =>
          /\ ThreeNewlinesAt(sampled, Len(sampled))
          /\ \A i \in 1 .. (Len(sampled) - 1) : ~ThreeNewlinesAt(sampled, i)
    /\ (pc = "complete" /\ stop = "interrupted") =>
          \A i \in 1 .. Len(sampled) : ~ThreeNewlinesAt(sampled, i)

\* the second turn of a session stopped by three newlines
C4_Witness ==
    /\ pc = "complete" /\ stop = "stopped"
    /\ Len(history) = 2

\* C5: a turn ended by an interrupt is finalized with the trimmed concatenation of
\* every token streamed before the interrupt.
C5_InterruptKeepsStreamed ==
    [][(pc = "complete" /\ stop = "interrupted" /\ pc' = "prompt") =>
          /\ Len(history') = Len(history)
          /\ history'[Len(history')][2] = Strip(streamed)]_vars

\* the context Full-Recompute Mode feeds to forward once the tokens smp are sampled
FullContext(hist, smp) == PinnedPrefix(system_prompt) \o Layout(hist) \o smp

\* Full-Recompute Mode does feed that context while it fits max_length
FullModeFeedsFullContext ==
    (~enable_kvcache /\ pc \in { "gen_model", "gen_sample" }
        /\ Len(FullContext(history, sampled)) <= max_length)
    => input_ids = FullContext(history, sampled)

\* C6: at every sampling step of Cache-Incremental Mode the cache has consumed exactly
\* the context of Full-Recompute Mode, while that context fits max_length.
C6_CacheEqualsFullContext ==
    (enable_kvcache /\ pc = "gen_sample"
        /\ Len(FullContext(history, sampled)) <= max_length)
    => cache = FullContext(history, sampled)

\* C7: top_p stays in (0, 1] and temperature in (0, 2] whatever commands are entered.
InDomain(v, limit) == ~v.nan /\ v.c > 0 /\ v.c <= limit
C7_ParamsStayInDomain ==
    InDomain(top_p, TopPLimit) /\ InDomain(temperature, TemperatureLimit)

\* C8: with a top_p in (0, 1] the sampling step succeeds, k = round(vocab_size * top_p)
\* lies in 1 .. vocab_size, and the token drawn is one of the k most probable.
C8_SamplingSucceeds ==
    (pc \in { "sampled", "crashed" } /\ InDomain(top_p, TopPLimit)) =>
        /\ pc = "sampled"
        /\ Cardinality(indices) = RoundHalfEven(vocab_size * top_p.c, 100)
        /\ Cardinality(indices) >= 1 /\ Cardinality(indices) <= vocab_size
        /\ token_id \in indices
        /\ \A j \in (DOMAIN logits) \ indices : logits[token_id] >= logits[j]
        /\ top_p = Float(TopPLimit) => indices = DOMAIN logits

\* a is r without its leading and trailing whitespace
IsTrimOf(a, r) ==
    \E i \in 0 .. Len(r) : \E j \in i .. Len(r) :
        /\ a = SubSeq(r, i + 1, j)
        /\ \A m \in 1 .. i : IsSpace(r[m])
        /\ \A m \in (j + 1) .. Len(r) : IsSpace(r[m])
        /\ a # << >> => (~IsSpace(a[1]) /\ ~IsSpace(a[Len(a)]))

\* C9: completing a turn keeps the last turn's human_text and stores the response
\* without its leading and trailing whitespace (so without the stop newlines).
C9_StoresTrimmedResponse ==
    [][(pc = "complete" /\ pc' = "prompt") =>
          /\ Len(history') = Len(history) /\ Len(history) >= 1
          /\ history'[Len(history)][1] = history[Len(history)][1]
          /\ IsTrimOf(history'[Len(history)][2], response)]_vars

\* a stored answer "x" whose two stop newlines the cache consumed after it
C9_Witness ==
    /\ pc = "prompt" /\ enable_kvcache
    /\ Len(history) = 1 /\ history[1][2] = << "x" >>
    /\ IsSuffixOf(<< char_id("x"), NL, NL >>, cache)

\* C10: !clear empties History, leaves the generation parameters alone and, with the
\* cache enabled, leaves in the cache exactly the primed system prompt, which is what
\* the cache holds at session start.
C10_ClearResets ==
    /\ (enable_kvcache /\ ticks = 0) => cache = PinnedPrefix(system_prompt)
    /\ [][(pc = "prompt" /\ out'.msg = "History cleared.") =>
             /\ history' = << >>
             /\ enable_kvcache => cache' = PinnedPrefix(system_prompt)
             /\ top_p' = top_p /\ temperature' = temperature
             /\ pc' = "prompt"]_vars

\* a clear in Cache-Incremental Mode after a turn and a parameter change
C10_Witness ==
    /\ pc = "prompt" /\ out.msg = "History cleared."
    /\ enable_kvcache /\ system_prompt # << >>
    /\ ticks >= 2
    /\ top_p # InitialTopP


(***************************************************************************)
(* Specification of the input loop alone (lines 109-122): lines are read   *)
(* and joined until one does not end with the continuation marker; the     *)
(* handlers are reduced to the return to the top of the loop.              *)
(***************************************************************************)
Backslash == "\\"
RawLines == { << >>, << "x" >>, << "x", Backslash >>, << Backslash >>, << "!", "x" >>,
              CLEAR, CLEAR \o << Backslash >> }

\* lines 113-119: one pass of the inner loop on the line raw
read_line(txt, raw) ==
    LET t == IF txt = << >> THEN raw ELSE txt \o raw
    IN IF t = << >> THEN [next |-> "IndexError", text |-> t]
       ELSE IF t[Len(t)] # Backslash THEN [next |-> "dispatch", text |-> t]
       ELSE [next |-> "prompt", text |-> SubSeq(t, 1, Len(t) - 1) \o << "\n" >>]

InitInput ==
    /\ enable_kvcache = FALSE
    /\ max_length \in MaxLengths
    /\ system_prompt = << >>
    /\ vocab_size = VocabSize
    /\ history = << >>
    /\ top_p = InitialTopP /\ temperature = InitialTemperature
    /\ text = << >> /\ out = NoOutput
    /\ input_ids = << >> /\ response = << >> /\ n_blankline = 0
    /\ last_out = << >> /\ token_id = 0 /\ logits = << >> /\ indices = {}
    /\ cache = << >> /\ sampled = << >> /\ streamed = << >> /\ stop = ""
    /\ ticks = 0
    /\ pc = "prompt"

\* lines 113-119: a line is read; ticks counts the lines joined so far
InputLine ==
    /\ pc = "prompt"
    /\ ticks < MaxJoin
    /\ \E raw \in RawLines :
         LET r == read_line(text, raw)
         IN /\ text' = r.text
            /\ pc' = IF r.next = "IndexError" THEN "crashed" ELSE r.next
            /\ out' = IF r.next = "IndexError" THEN Output("IndexError", << >>) ELSE NoOutput
    /\ ticks' = ticks + 1
    /\ UNCHANGED << config_vars, history, param_vars, loop_vars, cache >>

\* lines 120-122: EOFError at any input() call
InputEof ==
    /\ pc = "prompt"
    /\ pc' = "exited"
    /\ UNCHANGED << config_vars, history, param_vars, text, out, loop_vars, cache, ticks >>

\* lines 123-225 and 110: the input is handled and the loop starts over with text = ""
InputHandled ==
    /\ pc = "dispatch"
    /\ text' = << >>
    /\ ticks' = 0
    /\ pc' = "prompt"
    /\ UNCHANGED << config_vars, history, param_vars, out, loop_vars, cache >>

NextInput == InputLine \/ InputEof \/ InputHandled

SpecInput == InitInput /\ [][NextInput]_vars

\* C11: whatever line is entered at the prompt (empty lines and continuation lines
\* included) the session goes on, only end of input ends it, and an input made of
\* continuation lines is the lines joined with a newline in place of each marker.
C11_EveryLineHandled ==
    [][pc = "prompt" =>
          /\ pc' \in { "prompt", "dispatch", "gen_model", "exited" }
          /\ (pc' = "prompt" /\ text # text') =>
                (text' # << >> /\ text'[Len(text')] = "\n")]_vars

(***************************************************************************)
(* Properties of the decode loops.                                         *)
(***************************************************************************)
\* the turn opened by the current input, as history holds it during generation
PendingTurn == history[Len(history)]

\* C12: in Cache-Incremental Mode the first decode step of a turn feeds the cache
\* the tokens of the newest turn alone (no system prompt), and every later step,
\* whatever token was sampled before it, feeds exactly the token sampled last.
C12_TurnTokensFedOnce ==
    [][(enable_kvcache /\ pc = "gen_model" /\ pc' = "gen_sample") =>
          IF sampled = << >>
          THEN cache' = cache \o TurnLayout(PendingTurn)
          ELSE cache' = cache \o << sampled[Len(sampled)] >>]_vars

\* C13: in Full-Recompute Mode with a system prompt, every sequence the forward pass
\* has been given has at most max_length tokens and begins with the whole pinned
\* system-prompt prefix.
C13_ForwardInputPinned ==
    (~enable_kvcache /\ system_prompt # << >> /\ pc = "gen_sample")
        => /\ Len(input_ids) <= max_length
           /\ IsPrefixOf(PinnedPrefix(system_prompt), input_ids)

\* C14: in Cache-Incremental Mode, when an interrupt has ended the turn with a
\* partial response, the generated tokens the cache has consumed are exactly the
\* tokens of that response: the cache ends with the turn's tokens followed by them.
C14_InterruptCacheMatchesResponse ==
    (enable_kvcache /\ pc = "complete" /\ stop = "interrupted" /\ response # << >>)
        => IsSuffixOf(TurnLayout(PendingTurn) \o encode(response), cache)

(***************************************************************************)
(* Properties of History, the commands and the cache over the session.     *)
(***************************************************************************)
ClearStep == pc = "prompt" /\ out'.msg = "History cleared."

\* C15: a step changes History in one of three ways only: a plain-text input appends
\* the turn (text, "") at the end, the completion of a turn replaces the ai_text of
\* the last turn and nothing else, !clear empties it.
C15_HistoryChanges ==
    [][\/ history' = history
       \/ /\ pc = "prompt" /\ pc' = "gen_model"
          /\ history' = Append(history, << text', << >> >>)
       \/ /\ pc = "complete" /\ pc' = "prompt"
          /\ history # << >> /\ Len(history') = Len(history)
          /\ \A i \in 1 .. (Len(history) - 1) : history'[i] = history[i]
          /\ history'[Len(history)][1] = history[Len(history)][1]
       \/ /\ ClearStep
          /\ history' = << >>]_vars

\* two completed turns, the first kept as it was when the second got its ai_text
C15_Witness ==
    /\ pc = "prompt" /\ Len(history) = 2
    /\ history[1][2] # << >> /\ history[2][2] # << >>

QueryOutputs ==
    { "context", "history", "top_p set to", "temperature set to",
      "top_p value should be a float between 0 and 1.",
      "temperature value should be a float between 0 and 2." }

\* the tokens of the context of hist, from the layout of the turns
ContextTokens(hist) ==
    LET ids == PinnedPrefix(system_prompt)
                   \o PySliceFrom(Layout(hist), PinnedLen - max_length)
    IN [i \in 1 .. Len(ids) |-> id_to_token(ids[i])]

C17_CacheOnlyGrows ==
    [][(enable_kvcache /\ ~ClearStep) => IsPrefixOf(cache, cache')]_vars

\* the cache holds more than max_length tokens
C17_Witness == enable_kvcache /\ Len(cache) > max_length /\ pc = "gen_sample"

\* C18: the completion step runs with the turn of the current input pending as the
\* last turn of History; a generation comes back to the prompt only through it; and
\* the number of turns grows by one with each plain-text input, falls to zero at
\* !clear and changes at no other step.
C18_TurnsFinalizedOnce ==
    [][/\ pc' = "complete" => (history' # << >> /\ history'[Len(history')] = << text', << >> >>)
       /\ (pc # "prompt" /\ pc' = "prompt") => pc = "complete"
       /\ pc \in GenPcs => pc' \in GenPcs \cup { "complete", "crashed" }
       /\ Len(history') = IF pc = "prompt" /\ pc' = "gen_model" THEN Len(history) + 1
                          ELSE IF ClearStep THEN 0
                          ELSE Len(history)]_vars

\* the completion step is about to run for the second turn, with a response
C18_Witness ==
    /\ pc = "complete" /\ Len(history) = 2 /\ response # << >>
    /\ history[1][2] # << >>

====
